---- MODULE Spec2Model ----
(***************************************************************************)
(* Model of src/app.py: the split page of the PDF tool.  One run is one    *)
(* press of a Run button: the policy splitter in trigger mode ("Detect by  *)
(* TRAVEL PROTECTION CARD"), the policy splitter in fixed mode ("Fixed     *)
(* number of pages"), or the invoice splitter.                             *)
(*                                                                         *)
(* A page text is a sequence of lines; the empty text is <<>> and          *)
(* "\n".join is concatenation.  Page indices are 0-based as in the source, *)
(* so page j is input.pages[j + 1].                                        *)
(***************************************************************************)
EXTENDS Integers, Sequences, FiniteSets, TLC

VARIABLES input, run

vars == <<input, run>>

(* Bounds of the model. *)
MaxPages == 3
MaxPerPolicy == 3

None == "None"

-----------------------------------------------------------------------------
(* Text primitives.  Character-level operations of Python are tables over  *)
(* the line vocabulary of the model.                                       *)

upper(s) ==
    CASE s = "Travel Protection Card" -> "TRAVEL PROTECTION CARD"
      [] s = "Insured Name: A" -> "INSURED NAME: A"
      [] s = "Insured Name: A_1" -> "INSURED NAME: A_1"
      [] s = "Tax Invoice" -> "TAX INVOICE"
      [] s = "tax invoice" -> "TAX INVOICE"
      [] s = "Invoice No: 7" -> "INVOICE NO: 7"
      [] s = "Assist No: IC12345" -> "ASSIST NO: IC12345"
      [] OTHER -> s

upper_text(text) == [n \in DOMAIN text |-> upper(text[n])]

(* needle in text, both already upper-cased: some line carries the needle. *)
contains(text, needle) == \E n \in DOMAIN text : text[n] = needle

RECURSIVE join(_)
join(parts) ==
    IF parts = <<>> THEN <<>> ELSE Head(parts) \o join(Tail(parts))

(* re.search(pattern, line): the captured group, or None. *)
capture(pattern, line) ==
    CASE pattern = "Insured Name" /\ line = "Insured Name: A" -> "A"
      [] pattern = "Insured Name" /\ line = "Insured Name: A_1" -> "A_1"
      [] pattern = "Name" /\ line = "Insured Name: A" -> "A"
      [] pattern = "Name" /\ line = "Insured Name: A_1" -> "A_1"
      [] pattern = "Invoice no" /\ line = "Invoice No: 7" -> "7"
      [] pattern = "Assist No" /\ line = "Assist No: IC12345" -> "IC12345"
      [] pattern = "Assist No" /\ line = "Assist No: AB" -> "AB"
      [] pattern = "Assist No" /\ line = "Assist No: 1234" -> "1234"
      [] pattern = "Certificate No" /\ line = "Certificate No: AB" -> "AB"
      [] pattern = "Certificate No" /\ line = "Certificate No: C12345" -> "C12345"
      [] pattern = "Insured Name" /\ line = "Insured Name: JOHN SMITH" -> "JOHN SMITH"
      [] pattern = "Name" /\ line = "Insured Name: JOHN SMITH" -> "JOHN SMITH"
      [] pattern = "Date of Birth" /\ line = "Date of Birth: 01/01/1990" -> "01/01/1990"
      [] pattern = "Passport Number" /\ line = "Passport Number: P1234567" -> "P1234567"
      [] pattern = "Date of your travel from"
             /\ line = "Date of your travel: 01/01/2026 to 05/01/2026" -> "01/01/2026"
      [] pattern = "Date of your travel to"
             /\ line = "Date of your travel: 01/01/2026 to 05/01/2026" -> "05/01/2026"
      [] OTHER -> None

RECURSIVE search(_, _)
search(pattern, text) ==
    IF text = <<>> THEN None
    ELSE IF capture(pattern, Head(text)) # None
         THEN capture(pattern, Head(text))
         ELSE search(pattern, Tail(text))

has_digit(s) == s \in {"A_1", "7", "IC1", "IC3", "IC12345", "1234", "C12345", "IC777"}

(* ([A-Z0-9]{5,}) matched at the start of a line, letter case ignored: the *)
(* leading run of letters and digits when it has five characters or more.  *)
leading_code(line) ==
    CASE line = "IC777" -> "IC777"
      [] line = "Travel Protection Card" -> "Travel"
      [] line = "TRAVEL PROTECTION CARD" -> "TRAVEL"
      [] line \in {"Insured Name: A", "Insured Name: A_1",
                   "Insured Name: JOHN SMITH"} -> "Insured"
      [] line \in {"Assist No: AB", "Assist No: 1234",
                   "Assist No: IC12345"} -> "Assist"
      [] line \in {"Certificate No: AB", "Certificate No: C12345"} -> "Certificate"
      [] line = "Passport Number: P1234567" -> "Passport"
      [] OTHER -> None

(* re.search(r"Travel\s+Protection\s+Card\s*[\r\n]+([A-Z0-9]{5,})", text,   *)
(* re.IGNORECASE): the code on the line under the first card heading that  *)
(* has one, or None.                                                       *)
RECURSIVE search_under_card(_)
search_under_card(text) ==
    IF Len(text) < 2 THEN None
    ELSE IF upper(text[1]) = "TRAVEL PROTECTION CARD"
                /\ leading_code(text[2]) # None
         THEN leading_code(text[2])
         ELSE search_under_card(Tail(text))

-----------------------------------------------------------------------------
(* get_unique_name: the registry maps a base name to its collision count.  *)

get_unique_name_restart(name, existing_names) ==
    IF name \notin DOMAIN existing_names
    THEN [name |-> name, names |-> existing_names @@ (name :> 0)]
    ELSE [name |-> name \o "_" \o ToString(1),
          names |-> [existing_names EXCEPT ![name] = 1]]

get_unique_name(name, existing_names) ==
    IF name \notin DOMAIN existing_names
    THEN [name |-> name, names |-> existing_names @@ (name :> 0)]
    ELSE [name |-> name \o "_" \o ToString(existing_names[name] + 1),
          names |-> [existing_names EXCEPT ![name] = @ + 1]]

-----------------------------------------------------------------------------
(* Policy metadata helpers. *)

(* re.split(r"\s+", raw.strip()) *)
tokens(raw) ==
    CASE raw = "JOHN SMITH" -> <<"JOHN", "SMITH">>
      [] raw = "JANE DOE" -> <<"JANE", "DOE">>
      [] OTHER -> <<raw>>

(* re.match(r"^[A-Z][A-Z'-]*$", up) *)
name_shape(up) == up \in {"A", "JOHN", "SMITH", "JANE", "DOE"}

RECURSIVE join_space(_)
join_space(toks) ==
    IF Len(toks) = 1 THEN Head(toks)
    ELSE Head(toks) \o " " \o join_space(Tail(toks))

RECURSIVE clean_tokens(_)
clean_tokens(toks) ==
    IF toks = <<>> THEN <<>>
    ELSE LET core == Head(toks)
             up == upper(core)
         IN  IF core = "" THEN clean_tokens(Tail(toks))
             ELSE IF up \in {"DATE", "DAT", "BIRTH", "DOB"} THEN <<>>
             ELSE IF has_digit(core) THEN clean_tokens(Tail(toks))
             ELSE IF up \in {"OF"} THEN clean_tokens(Tail(toks))
             ELSE IF ~name_shape(up) THEN clean_tokens(Tail(toks))
             ELSE <<core>> \o clean_tokens(Tail(toks))

(* The captures of the vocabulary carry no surrounding whitespace, so      *)
(* raw.strip() is raw.                                                     *)
clean_policy_name_segment(raw) ==
    IF raw = "" THEN ""
    ELSE LET cleaned_tokens == clean_tokens(tokens(raw))
         IN  IF cleaned_tokens = <<>> THEN raw
             ELSE join_space(cleaned_tokens)

empty_meta ==
    [Name |-> "", AssistNo |-> "", StartDate |-> "", EndDate |-> "",
     DateOfBirth |-> "", PassportNumber |-> ""]

(* One link of the Assist No chain: the candidate of the pattern when it    *)
(* has a digit and, where the source asks for it, at least min_len chars.  *)
assist_candidate_any_length(pattern, full_text, min_len) ==
    LET candidate == search(pattern, full_text)
    IN  IF candidate # None /\ has_digit(candidate) THEN candidate ELSE ""

assist_candidate(pattern, full_text, min_len) ==
    LET candidate == search(pattern, full_text)
    IN  IF candidate # None /\ has_digit(candidate) /\ Len(candidate) >= min_len
        THEN candidate ELSE ""

(* The third link: the code under the card heading, which the pattern     *)
(* itself holds to five characters or more.                                *)
card_candidate(full_text) ==
    LET candidate == search_under_card(full_text)
    IN  IF candidate # None /\ has_digit(candidate) THEN candidate ELSE ""

(* One link of the Name chain. *)
name_candidate(pattern, full_text) ==
    LET raw == search(pattern, full_text)
    IN  IF raw # None THEN clean_policy_name_segment(raw) ELSE ""

first_match_none(pattern, full_text) == search(pattern, full_text)

first_match(pattern, full_text) ==
    LET m == search(pattern, full_text) IN IF m # None THEN m ELSE ""

extract_policy_metadata_from_text(full_text) ==
    LET a1 == assist_candidate("Certificate No", full_text, 5)
        a2 == IF a1 # "" THEN a1 ELSE assist_candidate("Assist No", full_text, 5)
        assist == IF a2 # "" THEN a2 ELSE card_candidate(full_text)
        n1 == name_candidate("Insured Name", full_text)
        n2 == IF n1 # "" THEN n1 ELSE name_candidate("Traveller", full_text)
        name == IF n2 # "" THEN n2 ELSE name_candidate("Name", full_text)
        d1 == <<search("Commencement Date From", full_text),
                search("Commencement Date End", full_text)>>
        d2 == IF d1[1] # None THEN d1
              ELSE <<search("Start Date", full_text), search("End Date", full_text)>>
        d3 == IF d2[1] # None THEN d2
              ELSE <<search("Date of your travel from", full_text),
                     search("Date of your travel to", full_text)>>
    IN  [Name |-> name,
         AssistNo |-> assist,
         StartDate |-> IF d3[1] # None THEN d3[1] ELSE "",
         EndDate |-> IF d3[1] # None THEN d3[2] ELSE "",
         DateOfBirth |-> first_match("Date of Birth", full_text),
         PassportNumber |-> first_match("Passport Number", full_text)]

(* re.sub(r'[\\/:"*?<>|]+', "", raw) *)
strip_illegal(raw) ==
    CASE raw = "A/B" -> "AB"
      [] OTHER -> raw

(* re.sub(r"\s+", " ", raw).strip().replace(" ", "_") *)
underscored(raw) ==
    CASE raw = "JOHN SMITH" -> "JOHN_SMITH"
      [] raw = "JANE DOE" -> "JANE_DOE"
      [] raw = "JOHN SMITH_C12345" -> "JOHN_SMITH_C12345"
      [] raw = "JOHN SMITH_IC12345" -> "JOHN_SMITH_IC12345"
      [] raw = "JOHN SMITH_IC777" -> "JOHN_SMITH_IC777"
      [] OTHER -> raw

build_policy_filename_swapped(name, assist_no) ==
    IF name # "" /\ assist_no # ""
    THEN underscored(strip_illegal(assist_no \o "_" \o name))
    ELSE IF assist_no # "" THEN underscored(strip_illegal(assist_no))
    ELSE IF name # "" THEN underscored(strip_illegal(name))
    ELSE "Policy"

build_policy_filename(name, assist_no) ==
    IF name # "" /\ assist_no # ""
    THEN underscored(strip_illegal(name \o "_" \o assist_no))
    ELSE IF name # "" THEN underscored(strip_illegal(name))
    ELSE IF assist_no # "" THEN underscored(strip_illegal(assist_no))
    ELSE "Policy"

-----------------------------------------------------------------------------
(* Pages.  page.extract_text() raises on a page with fails = TRUE; every   *)
(* caller catches it and takes the empty text.                             *)

extract_text(page) == IF page.fails THEN <<>> ELSE page.text

-----------------------------------------------------------------------------
(* Invoice helpers. *)

(* name.strip(), illegal characters removed, whitespace squeezed; never empty *)
sanitize_invoice_name(name) ==
    LET cleaned == strip_illegal(name)
    IN  IF cleaned # "" THEN cleaned ELSE "Invoice"

RECURSIVE find_from(_, _, _)
find_from(pages, trigger_text, i) ==
    IF i >= Len(pages) THEN <<>>
    ELSE (IF contains(upper_text(extract_text(pages[i + 1])), upper(trigger_text))
          THEN <<i>> ELSE <<>>) \o find_from(pages, trigger_text, i + 1)

find_invoice_start_pages(pages, trigger_text) == find_from(pages, trigger_text, 0)

compute_invoice_ranges_overlap(start_pages, total_pages) ==
    [idx \in 1..Len(start_pages) |->
        <<start_pages[idx],
          IF idx < Len(start_pages) THEN start_pages[idx + 1]
          ELSE total_pages - 1>>]

(* ranges are (start, end), 0-based and inclusive *)
compute_invoice_ranges(start_pages, total_pages) ==
    [idx \in 1..Len(start_pages) |->
        <<start_pages[idx],
          IF idx < Len(start_pages) THEN start_pages[idx + 1] - 1
          ELSE total_pages - 1>>]

(* sr_pattern.finditer on one line: its match (serial number, name), if any *)
sr_row(line) ==
    CASE line = "1 JOHN SMITH IC1" -> <<[sr |-> 1, name |-> "JOHN SMITH"]>>
      [] line = "3 JANE DOE IC3" -> <<[sr |-> 3, name |-> "JANE DOE"]>>
      [] line = "01. JANE DOE IC9" -> <<[sr |-> 1, name |-> "JANE DOE"]>>
      [] line = "0 JOHN SMITH IC0" -> <<[sr |-> 0, name |-> "JOHN SMITH"]>>
      [] OTHER -> <<>>

lower(s) ==
    CASE s = "Total Amount" -> "total amount"
      [] s = "TOTAL AMOUNT" -> "total amount"
      [] OTHER -> s

(* area[:idx_total]: the lines before the first 'total amount' line *)
RECURSIVE table_area(_)
table_area(text) ==
    IF text = <<>> \/ lower(Head(text)) = "total amount" THEN <<>>
    ELSE <<Head(text)>> \o table_area(Tail(text))

RECURSIVE sr_matches(_)
sr_matches(area) ==
    IF area = <<>> THEN <<>> ELSE sr_row(Head(area)) \o sr_matches(Tail(area))

RECURSIVE page_texts(_, _, _)
page_texts(pages, start_idx, end_idx) ==
    IF start_idx > end_idx THEN <<>>
    ELSE <<extract_text(pages[start_idx + 1])>>
         \o page_texts(pages, start_idx + 1, end_idx)

extract_invoice_metadata_count(pages, start_idx, end_idx) ==
    LET full_text == join(page_texts(pages, start_idx, end_idx))
        matches == sr_matches(table_area(full_text))
    IN  [invoice_no |-> first_match("Invoice no", full_text),
         total_members |-> Len(matches),
         first_member |-> IF matches = <<>> THEN "" ELSE matches[1].name,
         full_text |-> full_text]

extract_invoice_metadata(pages, start_idx, end_idx) ==
    LET full_text == join(page_texts(pages, start_idx, end_idx))
        area == table_area(full_text)
        matches == sr_matches(area)
        rows == {matches[n] : n \in DOMAIN matches}
        lowest == CHOOSE n \in DOMAIN matches :
                     /\ \A k \in DOMAIN matches : matches[n].sr <= matches[k].sr
                     /\ \A k \in 1..(n - 1) : matches[k].sr > matches[n].sr
    IN  [invoice_no |-> first_match("Invoice no", full_text),
         total_members |-> IF matches = <<>> THEN 0
                           ELSE CHOOSE x \in {r.sr : r \in rows} :
                                    \A r \in rows : r.sr <= x,
         first_member |-> IF matches = <<>> THEN "" ELSE matches[lowest].name,
         full_text |-> full_text]

-----------------------------------------------------------------------------
(* One run.  input is what the user supplied; run holds the locals of the  *)
(* handler and what it has shown (errors, success, the offered archive).   *)

POLICIES == "Policies (existing)"
INVOICES == "Invoices (Asego Global)"
FIXED == "Fixed number of pages"
DETECT == "Detect by TRAVEL PROTECTION CARD"

NoWriter == [open |-> FALSE, pages |-> <<>>]

total_pages(inp) == Len(inp.pages)

(* reader.pages[j] handed to add_page: raises on the page pypdf cannot read *)
add_page_raises(inp, j) == j = inp.bad_page

fresh ==
    [pc |-> "start", i |-> 0, pages_processed |-> 0,
     current_writer |-> NoWriter, current_text_parts |-> <<>>,
     policies |-> <<>>, name_counter |-> <<>>,
     policy_summary_rows |-> <<>>, policy_texts |-> <<>>,
     policy_meta_list |-> <<>>,
     num_policies |-> 0,
     start_pages_0 |-> <<>>, ranges |-> <<>>,
     invoices |-> <<>>, summary_rows |-> <<>>, texts_per_invoice |-> <<>>,
     errors |-> <<>>, success |-> FALSE,
     zip |-> [offered |-> FALSE, names |-> <<>>]]

(* "Run Splitter" pressed with a file uploaded: the locals, and in fixed   *)
(* mode the number of policies.                                            *)
run_splitter_floor(inp, s) ==
    IF inp.split_mode = DETECT
    THEN [s EXCEPT !.pc = "scan"]
    ELSE [s EXCEPT !.pc = "fixed",
                   !.num_policies = (total_pages(inp) \div inp.pages_per_policy) + 1]

run_splitter_trunc(inp, s) ==
    IF inp.split_mode = DETECT
    THEN [s EXCEPT !.pc = "scan"]
    ELSE [s EXCEPT !.pc = "fixed",
                   !.num_policies = total_pages(inp) \div inp.pages_per_policy]

run_splitter(inp, s) ==
    IF inp.split_mode = DETECT
    THEN [s EXCEPT !.pc = "scan"]
    ELSE [s EXCEPT !.pc = "fixed",
                   !.num_policies =
                       (total_pages(inp) + inp.pages_per_policy - 1)
                           \div inp.pages_per_policy]

(* The policy under construction is written out and named. *)
append_policy(s, writer, full_text, meta) ==
    LET base_name == build_policy_filename(meta.Name, meta.AssistNo)
        unique == get_unique_name(base_name, s.name_counter)
    IN  [s EXCEPT !.name_counter = unique.names,
                  !.policies = Append(@, [name |-> unique.name,
                                          pages |-> writer.pages]),
                  !.policy_summary_rows =
                      Append(@, [no |-> Len(s.policy_summary_rows) + 1,
                                 Filename |-> unique.name \o ".pdf",
                                 Name |-> meta.Name,
                                 AssistNo |-> meta.AssistNo,
                                 StartDate |-> meta.StartDate,
                                 EndDate |-> meta.EndDate,
                                 DateOfBirth |-> meta.DateOfBirth,
                                 PassportNumber |-> meta.PassportNumber]),
                  !.policy_texts = Append(@, full_text),
                  !.policy_meta_list = Append(@, meta)]

finalize_policy(s) ==
    IF s.current_writer.open /\ s.current_text_parts # <<>>
    THEN LET full_text == join(s.current_text_parts)
         IN  append_policy(s, s.current_writer, full_text,
                           extract_policy_metadata_from_text(full_text))
    ELSE s

is_new_card_exact(text) == contains(text, "TRAVEL PROTECTION CARD")

(* "TRAVEL PROTECTION CARD" in text.upper() *)
is_new_card(text) == contains(upper_text(text), "TRAVEL PROTECTION CARD")

parse_error(s) ==
    [s EXCEPT !.errors = Append(@, "Error while parsing policy PDF."),
              !.pc = "report"]

scan_text_no_reset(inp, s, text) ==
    LET s1 == [s EXCEPT !.pages_processed = @ + 1]
    IN  IF is_new_card(text)
        THEN LET s2 == finalize_policy(s1)
             IN  IF add_page_raises(inp, s.i) THEN parse_error(s2)
                 ELSE [s2 EXCEPT !.current_writer =
                                     [open |-> TRUE, pages |-> <<s.i>>],
                                 !.current_text_parts = Append(@, text),
                                 !.i = @ + 1]
        ELSE IF s.current_writer.open
             THEN IF add_page_raises(inp, s.i) THEN parse_error(s1)
                  ELSE [s1 EXCEPT !.current_writer.pages = Append(@, s.i),
                                  !.current_text_parts = Append(@, text),
                                  !.i = @ + 1]
             ELSE [s1 EXCEPT !.i = @ + 1]

scan_text_no_close(inp, s, text) ==
    LET s1 == [s EXCEPT !.pages_processed = @ + 1]
    IN  IF s.current_writer.open
        THEN IF add_page_raises(inp, s.i) THEN parse_error(s1)
             ELSE [s1 EXCEPT !.current_writer.pages = Append(@, s.i),
                             !.current_text_parts = Append(@, text),
                             !.i = @ + 1]
        ELSE IF is_new_card(text)
             THEN IF add_page_raises(inp, s.i) THEN parse_error(s1)
                  ELSE [s1 EXCEPT !.current_writer =
                                      [open |-> TRUE, pages |-> <<s.i>>],
                                  !.current_text_parts = <<text>>,
                                  !.i = @ + 1]
             ELSE [s1 EXCEPT !.i = @ + 1]

(* Trigger mode, one iteration of the page loop, from the extracted text on. *)
scan_text(inp, s, text) ==
    LET s1 == [s EXCEPT !.pages_processed = @ + 1]
    IN  IF is_new_card(text)
        THEN LET s2 == finalize_policy(s1)
             IN  IF add_page_raises(inp, s.i) THEN parse_error(s2)
                 ELSE [s2 EXCEPT !.current_writer =
                                     [open |-> TRUE, pages |-> <<s.i>>],
                                 !.current_text_parts = <<text>>,
                                 !.i = @ + 1]
        ELSE IF s.current_writer.open
             THEN IF add_page_raises(inp, s.i) THEN parse_error(s1)
                  ELSE [s1 EXCEPT !.current_writer.pages = Append(@, s.i),
                                  !.current_text_parts = Append(@, text),
                                  !.i = @ + 1]
             ELSE [s1 EXCEPT !.i = @ + 1]

scan_page_skip_unreadable(inp, s) ==
    IF inp.pages[s.i + 1].fails
    THEN [s EXCEPT !.pages_processed = @ + 1, !.i = @ + 1]
    ELSE scan_text(inp, s, inp.pages[s.i + 1].text)

(* Trigger mode, one iteration of the page loop. *)
scan_page(inp, s) == scan_text(inp, s, extract_text(inp.pages[s.i + 1]))

finalize_last_whole(inp, s) ==
    IF s.current_writer.open
    THEN [finalize_policy(s) EXCEPT !.pc = "report"]
    ELSE [append_policy(s, [open |-> TRUE,
                            pages |-> [n \in 1..Len(inp.pages) |-> n - 1]],
                        <<>>, empty_meta)
          EXCEPT !.pc = "report"]

(* Trigger mode, after the page loop: the last policy. *)
finalize_last(inp, s) == [finalize_policy(s) EXCEPT !.pc = "report"]

(* the page indices start_idx .. end_idx - 1, as range(start_idx, end_idx) *)
range_seq(start_idx, end_idx) ==
    [n \in 1..(end_idx - start_idx) |-> start_idx + n - 1]

min(a, b) == IF a <= b THEN a ELSE b

(* Fixed mode, one iteration of the policy loop. *)
fixed_chunk(inp, s) ==
    LET start_idx == s.i * inp.pages_per_policy
        end_idx == min(start_idx + inp.pages_per_policy, total_pages(inp))
        js == range_seq(start_idx, end_idx)
    IN  IF \E n \in DOMAIN js : add_page_raises(inp, js[n])
        THEN [s EXCEPT !.pages_processed = @ + (inp.bad_page - start_idx),
                       !.errors = Append(@, "Error while processing policy PDF."),
                       !.pc = "report"]
        ELSE LET full_text == join(page_texts(inp.pages, start_idx, end_idx - 1))
                 meta == IF full_text # <<>>
                         THEN extract_policy_metadata_from_text(full_text)
                         ELSE empty_meta
                 s1 == [s EXCEPT !.pages_processed = @ + Len(js), !.i = @ + 1]
             IN  append_policy(s1, [open |-> TRUE, pages |-> js], full_text, meta)

(* The policy splitter's result: the success message and the archive, or   *)
(* the "nothing produced" error.                                           *)
policy_report(inp, s) ==
    IF s.policies # <<>>
    THEN [s EXCEPT !.success = TRUE,
                   !.zip = [offered |-> TRUE,
                            names |-> [n \in DOMAIN s.policies |->
                                          s.policies[n].name \o ".pdf"]],
                   !.pc = "done"]
    ELSE [s EXCEPT !.errors = Append(@, "No policies were produced. Check file and split settings."),
                   !.pc = "done"]

(* "Run Invoice Splitter" pressed with a file and a non-blank trigger      *)
(* text: the start pages, st.stop() when there are none, else the ranges.  *)
run_invoice_splitter(inp, s) ==
    LET start_pages_0 == find_invoice_start_pages(inp.pages, inp.trigger_text)
    IN  IF start_pages_0 = <<>>
        THEN [s EXCEPT !.errors = Append(@, "No invoice start pages found using the given trigger text."),
                       !.pc = "done"]
        ELSE [s EXCEPT !.start_pages_0 = start_pages_0,
                       !.ranges = compute_invoice_ranges(start_pages_0,
                                                         total_pages(inp)),
                       !.pc = "invoices"]

invoice_base_name_number_first(meta, idx) ==
    IF meta.invoice_no # "" THEN "Invoice_" \o meta.invoice_no
    ELSE IF meta.first_member # "" /\ meta.total_members > 0
    THEN meta.first_member \o " x " \o ToString(meta.total_members)
    ELSE IF meta.first_member # "" THEN meta.first_member
    ELSE "Invoice_" \o ToString(idx)

invoice_base_name(meta, idx) ==
    IF meta.first_member # "" /\ meta.total_members > 0
    THEN meta.first_member \o " x " \o ToString(meta.total_members)
    ELSE IF meta.first_member # "" THEN meta.first_member
    ELSE IF meta.invoice_no # "" THEN "Invoice_" \o meta.invoice_no
    ELSE "Invoice_" \o ToString(idx)

(* Invoice mode, one iteration of the range loop. *)
invoice_range(inp, s) ==
    LET idx == s.i + 1
        start_idx == s.ranges[idx][1]
        end_idx == s.ranges[idx][2]
        js == range_seq(start_idx, end_idx + 1)
    IN  IF \E n \in DOMAIN js : add_page_raises(inp, js[n])
        THEN [s EXCEPT !.pages_processed = @ + (inp.bad_page - start_idx),
                       !.errors = Append(@, "Error while processing invoice PDF."),
                       !.pc = "done"]
        ELSE LET meta == extract_invoice_metadata(inp.pages, start_idx, end_idx)
                 base_name == sanitize_invoice_name(invoice_base_name(meta, idx))
                 unique == get_unique_name(base_name, s.name_counter)
             IN  [s EXCEPT !.pages_processed = @ + Len(js),
                           !.i = @ + 1,
                           !.name_counter = unique.names,
                           !.invoices = Append(@, [name |-> unique.name,
                                                   pages |-> js]),
                           !.texts_per_invoice = Append(@, meta.full_text),
                           !.summary_rows =
                               Append(@, [no |-> idx,
                                          Filename |-> unique.name \o ".pdf",
                                          InvoiceNumber |-> meta.invoice_no,
                                          Members |-> IF meta.total_members > 0
                                                      THEN ToString(meta.total_members)
                                                      ELSE "",
                                          Pages |-> end_idx - start_idx + 1])]

invoice_report(inp, s) ==
    IF s.invoices # <<>>
    THEN [s EXCEPT !.success = TRUE,
                   !.zip = [offered |-> TRUE,
                            names |-> [n \in DOMAIN s.invoices |->
                                          s.invoices[n].name \o ".pdf"]],
                   !.pc = "done"]
    ELSE [s EXCEPT !.errors = Append(@, "No invoices were produced. Check file and trigger text."),
                   !.pc = "done"]

-----------------------------------------------------------------------------
(* Inputs. *)

PolicyTexts ==
    { <<>>,
      <<"TRAVEL PROTECTION CARD">>,
      <<"Travel Protection Card", "Insured Name: A">>,
      <<"Insured Name: A">>,
      <<"Insured Name: A_1">>,
      <<"Assist No: IC12345">>,
      <<"Insured Name: A", "Assist No: IC12345">> }

InvoiceTexts ==
    { <<>>,
      <<"Tax Invoice">>,
      <<"Tax Invoice", "Invoice No: 7">>,
      <<"1 JOHN SMITH IC1">>,
      <<"Tax Invoice", "0 JOHN SMITH IC0">> }

(* A page whose extract_text() raises; text is what it would have held. *)
PolicyPages ==
    {[text |-> t, fails |-> FALSE] : t \in PolicyTexts}
        \cup {[text |-> <<"Travel Protection Card", "Insured Name: A">>,
               fails |-> TRUE]}

InvoicePages ==
    {[text |-> t, fails |-> FALSE] : t \in InvoiceTexts}
        \cup {[text |-> <<"Tax Invoice", "Invoice No: 7">>, fails |-> TRUE]}

PageSeqs(P) == UNION {[1..n -> P] : n \in 0..MaxPages}

PolicyInputs ==
    {[split_feature |-> POLICIES, split_mode |-> m[1], pages_per_policy |-> m[2],
      trigger_text |-> "", pages |-> ps, bad_page |-> b] :
        m \in {<<DETECT, None>>} \cup {<<FIXED, k>> : k \in 1..MaxPerPolicy},
        ps \in PageSeqs(PolicyPages), b \in -1..(MaxPages - 1)}

InvoiceInputs ==
    {[split_feature |-> INVOICES, split_mode |-> FIXED, pages_per_policy |-> None,
      trigger_text |-> "tax invoice", pages |-> ps, bad_page |-> b] :
        ps \in PageSeqs(InvoicePages), b \in -1..(MaxPages - 1)}

Inputs == {inp \in PolicyInputs \cup InvoiceInputs : inp.bad_page < Len(inp.pages)}

-----------------------------------------------------------------------------
(* The state machine. *)

Init == input \in Inputs /\ run = fresh

RunSplitter ==
    /\ run.pc = "start" /\ input.split_feature = POLICIES
    /\ run' = run_splitter(input, run)
    /\ UNCHANGED input

ScanPage ==
    /\ run.pc = "scan" /\ run.i < total_pages(input)
    /\ run' = scan_page(input, run)
    /\ UNCHANGED input

FinalizeLast ==
    /\ run.pc = "scan" /\ run.i = total_pages(input)
    /\ run' = finalize_last(input, run)
    /\ UNCHANGED input

FixedChunk ==
    /\ run.pc = "fixed" /\ run.i < run.num_policies
    /\ run' = fixed_chunk(input, run)
    /\ UNCHANGED input

PolicyReport ==
    /\ run.pc = "report" \/ (run.pc = "fixed" /\ run.i >= run.num_policies)
    /\ run' = policy_report(input, run)
    /\ UNCHANGED input

RunInvoiceSplitter ==
    /\ run.pc = "start" /\ input.split_feature = INVOICES
    /\ run' = run_invoice_splitter(input, run)
    /\ UNCHANGED input

InvoiceRange ==
    /\ run.pc = "invoices" /\ run.i < Len(run.ranges)
    /\ run' = invoice_range(input, run)
    /\ UNCHANGED input

InvoiceReport ==
    /\ run.pc = "invoices" /\ run.i = Len(run.ranges)
    /\ run' = invoice_report(input, run)
    /\ UNCHANGED input

Next ==
    \/ RunSplitter
    \/ ScanPage
    \/ FinalizeLast
    \/ FixedChunk
    \/ PolicyReport
    \/ RunInvoiceSplitter
    \/ InvoiceRange
    \/ InvoiceReport

Spec == Init /\ [][Next]_vars

(* The handler as a function: the step enabled in s, and the run to its end. *)
step(inp, s) ==
    CASE s.pc = "start" /\ inp.split_feature = POLICIES -> run_splitter(inp, s)
      [] s.pc = "start" /\ inp.split_feature = INVOICES -> run_invoice_splitter(inp, s)
      [] s.pc = "scan" /\ s.i < total_pages(inp) -> scan_page(inp, s)
      [] s.pc = "scan" /\ s.i >= total_pages(inp) -> finalize_last(inp, s)
      [] s.pc = "fixed" /\ s.i < s.num_policies -> fixed_chunk(inp, s)
      [] s.pc = "fixed" /\ s.i >= s.num_policies -> policy_report(inp, s)
      [] s.pc = "report" -> policy_report(inp, s)
      [] s.pc = "invoices" /\ s.i < Len(s.ranges) -> invoice_range(inp, s)
      [] s.pc = "invoices" /\ s.i >= Len(s.ranges) -> invoice_report(inp, s)
      [] OTHER -> s

RECURSIVE finish(_, _)
finish(inp, s) == IF s.pc = "done" THEN s ELSE finish(inp, step(inp, s))

-----------------------------------------------------------------------------
(* A second specification: fixed mode alone, on longer inputs of blank     *)
(* pages (the segmentation does not read the text).                        *)

MaxFixedPages == 10
MaxFixedPerPolicy == 4

BlankPage == [text |-> <<>>, fails |-> FALSE]

FixedInputs ==
    {[split_feature |-> POLICIES, split_mode |-> FIXED, pages_per_policy |-> k,
      trigger_text |-> "", pages |-> [n \in 1..N |-> BlankPage], bad_page |-> b] :
        k \in 1..MaxFixedPerPolicy, N \in 0..MaxFixedPages,
        b \in -1..(MaxFixedPages - 1)}

InitFixed ==
    /\ input \in {inp \in FixedInputs : inp.bad_page < Len(inp.pages)}
    /\ run = fresh

NextFixed == RunSplitter \/ FixedChunk \/ PolicyReport

SpecFixed == InitFixed /\ [][NextFixed]_vars

-----------------------------------------------------------------------------
(* Vocabulary of the properties. *)

IsDetect == input.split_feature = POLICIES /\ input.split_mode = DETECT
IsFixed == input.split_feature = POLICIES /\ input.split_mode = FIXED
IsInvoice == input.split_feature = INVOICES

Documents == IF IsInvoice THEN run.invoices ELSE run.policies

N == Len(input.pages)

Done == run.pc = "done"

(* an exception escaped the page loop into the handler's except clause *)
Raised ==
    \E n \in DOMAIN run.errors :
        run.errors[n] \in {"Error while parsing policy PDF.",
                           "Error while processing policy PDF.",
                           "Error while processing invoice PDF."}

(* The pages the run can see the trigger on: the text was extracted and a  *)
(* line of it is the trigger, in any letter case.                          *)
CardLines == {"TRAVEL PROTECTION CARD", "Travel Protection Card"}
HeaderLines == {"Tax Invoice", "TAX INVOICE", "tax invoice"}

TriggerLines == IF IsInvoice THEN HeaderLines ELSE CardLines

TriggerPages ==
    {j \in 0..(N - 1) :
        /\ ~input.pages[j + 1].fails
        /\ \E n \in DOMAIN input.pages[j + 1].text :
               input.pages[j + 1].text[n] \in TriggerLines}

PagesOf(doc) == {doc.pages[n] : n \in DOMAIN doc.pages}

(* doc holds the pages lo .. hi - 1, once each, in ascending order *)
IsRange(doc, lo, hi) ==
    /\ Len(doc.pages) = hi - lo
    /\ \A n \in DOMAIN doc.pages : doc.pages[n] = lo + n - 1

First(doc) == doc.pages[1]
End(doc) == doc.pages[Len(doc.pages)] + 1

Adjacent(docs) ==
    /\ \A n \in DOMAIN docs : docs[n].pages # <<>> /\ IsRange(docs[n], First(docs[n]), End(docs[n]))
    /\ \A n \in 1..(Len(docs) - 1) : End(docs[n]) = First(docs[n + 1])

CoveredOnce(docs, pageset) ==
    \A p \in 0..(N - 1) :
        Cardinality({n \in DOMAIN docs :
                        \E k \in DOMAIN docs[n].pages : docs[n].pages[k] = p})
            = IF p \in pageset THEN 1 ELSE 0

-----------------------------------------------------------------------------
(* C1, as stated: a trigger-mode run that ends with documents and without  *)
(* an exception has cut the input into adjacent ascending page ranges that *)
(* cover every page 0 .. N-1 exactly once.                                 *)
C1_CoversEveryPage ==
    (IsDetect /\ Done /\ ~Raised /\ run.policies # <<>>) =>
        /\ Adjacent(run.policies)
        /\ CoveredOnce(run.policies, 0..(N - 1))

(* C1, amended: in trigger mode the documents are always adjacent          *)
(* ascending page ranges without overlap, the first one begins at the      *)
(* first trigger page, and when the run ends without an exception they     *)
(* cover every page from the first trigger page to N-1 exactly once and no *)
(* page before it (no page at all when no page has the trigger).           *)
C1_CoversFromFirstTrigger ==
    IsDetect =>
        /\ Adjacent(run.policies)
        /\ run.policies # <<>> =>
               /\ TriggerPages # {}
               /\ \A t \in TriggerPages : First(run.policies[1]) <= t
               /\ First(run.policies[1]) \in TriggerPages
        /\ (Done /\ ~Raised) =>
               CoveredOnce(run.policies,
                           {p \in 0..(N - 1) : \E t \in TriggerPages : t <= p})

C1_Witness ==
    /\ IsDetect /\ Done /\ ~Raised
    /\ Len(run.policies) = 2
    /\ First(run.policies[1]) = 1
    /\ "Travel Protection Card" \in
           {input.pages[2].text[n] : n \in DOMAIN input.pages[2].text}

-----------------------------------------------------------------------------
(* ceil(n / k) for n >= 0 and k >= 1 *)
CeilDiv(n, k) == CHOOSE c \in 0..n : c * k >= n /\ (c = 0 \/ (c - 1) * k < n)

(* C2: in fixed mode the i-th document (0-based) always holds the pages    *)
(* [i*k, min((i+1)*k, N)), and a run on N >= 1 pages that ends without an  *)
(* exception has produced exactly ceil(N/k) documents, the last of         *)
(* N - k*(count-1) pages, every page being in exactly one document.        *)
C2_FixedChunks ==
    IsFixed =>
        LET k == input.pages_per_policy
            count == CeilDiv(N, k)
        IN  /\ \A n \in DOMAIN run.policies :
                   IsRange(run.policies[n], (n - 1) * k,
                           IF n * k <= N THEN n * k ELSE N)
            /\ (Done /\ ~Raised /\ N >= 1) =>
                   /\ Len(run.policies) = count
                   /\ Len(run.policies[count].pages) = N - k * (count - 1)
                   /\ CoveredOnce(run.policies, 0..(N - 1))

C2_Witness ==
    /\ IsFixed /\ Done /\ N = 10 /\ input.pages_per_policy = 4
    /\ [n \in DOMAIN run.policies |-> run.policies[n].pages]
           = << <<0, 1, 2, 3>>, <<4, 5, 6, 7>>, <<8, 9>> >>

(* C3, as stated: the names of the documents of one run are pairwise       *)
(* distinct.                                                               *)
C3_UniqueNames ==
    \A m, n \in DOMAIN Documents :
        m # n => Documents[m].name # Documents[n].name

(* The base names handed to get_unique_name, in call order. *)
BaseNames ==
    IF IsInvoice
    THEN [n \in DOMAIN run.invoices |->
             sanitize_invoice_name(invoice_base_name(
                 extract_invoice_metadata(input.pages, run.ranges[n][1],
                                          run.ranges[n][2]), n))]
    ELSE [n \in DOMAIN run.policies |->
             build_policy_filename(run.policy_meta_list[n].Name,
                                   run.policy_meta_list[n].AssistNo)]

EarlierCalls(n) == Cardinality({m \in 1..(n - 1) : BaseNames[m] = BaseNames[n]})

(* C4: the first call with base name b returns b, the j-th later call with *)
(* the same b returns b_j, whatever other base names come in between, and  *)
(* the counter of b counts the later calls with b; three documents of base *)
(* name Policy are named Policy, Policy_1, Policy_2.                       *)
C4_SuffixSequence ==
    /\ \A n \in DOMAIN Documents :
           Documents[n].name =
               IF EarlierCalls(n) = 0 THEN BaseNames[n]
               ELSE BaseNames[n] \o "_" \o ToString(EarlierCalls(n))
    /\ \A b \in DOMAIN run.name_counter :
           run.name_counter[b]
               = Cardinality({n \in DOMAIN Documents : BaseNames[n] = b}) - 1
    /\ (Len(Documents) >= 3 /\ \A n \in 1..3 : BaseNames[n] = "Policy") =>
           /\ Documents[1].name = "Policy"
           /\ Documents[2].name = "Policy_1"
           /\ Documents[3].name = "Policy_2"

C4_Witness ==
    /\ Done /\ Len(Documents) = 3
    /\ \A n \in 1..3 : BaseNames[n] = "Policy"
    /\ Documents[3].name = "Policy_2"

(* C5: when the run can see the trigger on no page, a trigger-based run    *)
(* (trigger mode, invoice mode) never produces a document, a success       *)
(* message or an archive, and ends with the "nothing found" error alone;   *)
(* the invoice run stops before it computes a range or writes a page.      *)
C5_NoTriggerFails ==
    ((IsDetect \/ IsInvoice) /\ TriggerPages = {}) =>
        /\ Documents = <<>>
        /\ ~run.success
        /\ ~run.zip.offered
        /\ IsInvoice =>
               /\ run.pc \in {"start", "done"}
               /\ run.ranges = <<>>
               /\ run.pages_processed = 0
        /\ Done =>
               run.errors =
                   IF IsInvoice
                   THEN <<"No invoice start pages found using the given trigger text.">>
                   ELSE <<"No policies were produced. Check file and split settings.">>

C5_Witness ==
    /\ IsDetect /\ Done /\ N >= 2 /\ TriggerPages = {}
    /\ run.errors # <<>>

(* C6: in invoice mode, with the trigger pages t_1 < ... < t_m (m >= 1) of *)
(* an input of N pages, there are exactly m ranges, the i-th covering the  *)
(* pages from t_i up to but not including t_(i+1), the last one up to page *)
(* N-1; consecutive ranges are adjacent and do not overlap, and the i-th   *)
(* invoice holds exactly the pages of the i-th range.                      *)
C6_InvoiceRanges ==
    (IsInvoice /\ run.pc \in {"invoices", "done"} /\ run.start_pages_0 # <<>>) =>
        LET t == run.start_pages_0
            m == Len(t)
            r == run.ranges
        IN  /\ {t[i] : i \in 1..m} = TriggerPages
            /\ \A i \in 1..(m - 1) : t[i] < t[i + 1]
            /\ Len(r) = m
            /\ \A i \in 1..m :
                   /\ r[i][1] = t[i]
                   /\ r[i][1] <= r[i][2]
                   /\ {p \in 0..(N - 1) : r[i][1] <= p /\ p <= r[i][2]}
                          = {p \in 0..(N - 1) :
                                t[i] <= p /\ (i < m => p < t[i + 1])}
            /\ \A i \in 1..(m - 1) : r[i][2] + 1 = r[i + 1][1]
            /\ r[m][2] = N - 1
            /\ \A n \in DOMAIN run.invoices :
                   IsRange(run.invoices[n], t[n], IF n < m THEN t[n + 1] ELSE N)

C6_Witness ==
    /\ IsInvoice /\ Done /\ ~Raised
    /\ Len(run.invoices) = 2
    /\ Len(run.invoices[1].pages) = 2

(* The input with every page whose extraction fails replaced by a page of  *)
(* empty text.                                                             *)
emptied(inp) ==
    [inp EXCEPT !.pages =
        [n \in DOMAIN @ |-> IF @[n].fails THEN [text |-> <<>>, fails |-> FALSE]
                            ELSE @[n]]]

(* C8: a run on an input with pages whose text extraction fails ends in    *)
(* the state (documents, names, pages processed, messages) in which the    *)
(* run on the same input with those pages holding empty text ends: the     *)
(* failure aborts nothing and every later page is processed.               *)
C8_UnreadableAsEmpty ==
    Done => run = finish(emptied(input), fresh)

C8_Witness ==
    /\ IsDetect /\ Done /\ run.success
    /\ run.pages_processed = N
    /\ \E j \in 0..(N - 2) :
           /\ input.pages[j + 1].fails
           /\ \E n \in DOMAIN run.policies : j \in PagesOf(run.policies[n])

(* C9: no document of any strategy has zero pages. *)
C9_NoEmptyDocument ==
    \A n \in DOMAIN Documents : Len(Documents[n].pages) >= 1

C9_Witness ==
    /\ IsFixed /\ Done /\ N = 2 /\ input.pages_per_policy = 2
    /\ Len(run.policies) = 1

(* C10, as stated: a run ends either with a success message, a non-empty   *)
(* list of documents on offer and no error reported, or with an error      *)
(* reported and neither a success message nor documents on offer.          *)
C10_OneOutcome ==
    Done =>
        \/ /\ run.success /\ run.zip.offered
           /\ Documents # <<>> /\ run.errors = <<>>
        \/ /\ run.errors # <<>>
           /\ ~run.success /\ ~run.zip.offered

-----------------------------------------------------------------------------
(* The merge page: a third specification.  input.uploaded_files is the     *)
(* ordered list of uploads; PdfReader(f) raises on a file with             *)
(* readable = FALSE.  A merged page is <<file index, page index>>.         *)

MaxFiles == 3
MaxSourcePages == 2

Uploads ==
    {[readable |-> TRUE, pages |-> n] : n \in 0..MaxSourcePages}
        \cup {[readable |-> FALSE, pages |-> 0]}

MergeInputs ==
    {[uploaded_files |-> fs] : fs \in UNION {[1..n -> Uploads] : n \in 0..MaxFiles}}

merge_fresh ==
    [pc |-> "start", i |-> 0, writer |-> <<>>,
     total_pages |-> 0, pages_done |-> 0, processed |-> 0,
     warnings |-> <<>>, errors |-> <<>>, success |-> <<>>,
     download |-> [offered |-> FALSE, pages |-> <<>>]]

(* "Merge PDFs" pressed. *)
merge_run(inp, s) ==
    IF inp.uploaded_files = <<>>
    THEN [s EXCEPT !.errors = Append(@, "Please upload one or more PDF files to merge."),
                   !.pc = "done"]
    ELSE [s EXCEPT !.pc = "count"]

(* First loop, one file: its pages are counted when it can be read. *)
merge_count(inp, s) ==
    LET f == inp.uploaded_files[s.i + 1]
        s1 == IF f.readable THEN [s EXCEPT !.total_pages = @ + f.pages] ELSE s
    IN  IF s.i + 1 = Len(inp.uploaded_files)
        THEN [s1 EXCEPT !.i = 0, !.pc = "merge"]
        ELSE [s1 EXCEPT !.i = @ + 1]

merge_file_break(inp, s) ==
    LET f == inp.uploaded_files[s.i + 1]
    IN  IF ~f.readable
        THEN [s EXCEPT !.warnings = Append(@, s.i + 1),
                       !.i = Len(inp.uploaded_files)]
        ELSE [s EXCEPT !.writer = @ \o [p \in 1..f.pages |-> <<s.i + 1, p>>],
                       !.pages_done = @ + f.pages,
                       !.processed = @ + 1,
                       !.i = @ + 1]

(* Second loop, one file: warned about and skipped, or its pages added. *)
merge_file(inp, s) ==
    LET f == inp.uploaded_files[s.i + 1]
    IN  IF ~f.readable
        THEN [s EXCEPT !.warnings = Append(@, s.i + 1), !.i = @ + 1]
        ELSE [s EXCEPT !.writer = @ \o [p \in 1..f.pages |-> <<s.i + 1, p>>],
                       !.pages_done = @ + f.pages,
                       !.processed = @ + 1,
                       !.i = @ + 1]

(* The merged file is written, reported and offered. *)
merge_report(inp, s) ==
    [s EXCEPT !.success = Append(@, s.processed),
              !.download = [offered |-> TRUE, pages |-> s.writer],
              !.pc = "done"]

InitMerge == input \in MergeInputs /\ run = merge_fresh

MergeRun ==
    /\ run.pc = "start"
    /\ run' = merge_run(input, run)
    /\ UNCHANGED input

MergeCount ==
    /\ run.pc = "count"
    /\ run' = merge_count(input, run)
    /\ UNCHANGED input

MergeFile ==
    /\ run.pc = "merge" /\ run.i < Len(input.uploaded_files)
    /\ run' = merge_file(input, run)
    /\ UNCHANGED input

MergeReport ==
    /\ run.pc = "merge" /\ run.i = Len(input.uploaded_files)
    /\ run' = merge_report(input, run)
    /\ UNCHANGED input

NextMerge == MergeRun \/ MergeCount \/ MergeFile \/ MergeReport

SpecMerge == InitMerge /\ [][NextMerge]_vars

(* The pages of the readable files among files[from..], in upload order    *)
(* and in page order within each file.                                     *)
RECURSIVE ReadablePages(_, _)
ReadablePages(files, from) ==
    IF from > Len(files) THEN <<>>
    ELSE (IF files[from].readable
          THEN [p \in 1..files[from].pages |-> <<from, p>>] ELSE <<>>)
         \o ReadablePages(files, from + 1)

Unreadable(files) == {n \in DOMAIN files : ~files[n].readable}

-----------------------------------------------------------------------------
(* extract_invoice_metadata alone, on every text of up to MaxLines lines.  *)

MaxLines == 4

InvoiceLines ==
    {"1 JOHN SMITH IC1", "3 JANE DOE IC3", "01. JANE DOE IC9",
     "0 JOHN SMITH IC0", "Total Amount", "TOTAL AMOUNT", "Invoice No: 7"}

InvoiceMetaInputs ==
    {[pages |-> <<[text |-> t, fails |-> FALSE]>>] :
        t \in UNION {[1..n -> InvoiceLines] : n \in 0..MaxLines}}

InitInvoiceMeta ==
    /\ input \in InvoiceMetaInputs
    /\ run = [pc |-> "start", meta |-> extract_invoice_metadata(<<>>, 0, -1)]

ExtractInvoiceMetadata ==
    /\ run.pc = "start"
    /\ run' = [pc |-> "done",
               meta |-> extract_invoice_metadata(input.pages, 0,
                                                 Len(input.pages) - 1)]
    /\ UNCHANGED input

NextInvoiceMeta == ExtractInvoiceMetadata

SpecInvoiceMeta == InitInvoiceMeta /\ [][NextInvoiceMeta]_vars

(* The table rows of the text: the indices of the row lines before the     *)
(* first 'Total Amount' line, in any letter case.                          *)
MarkerLines == {"Total Amount", "TOTAL AMOUNT"}

TableRows(text) ==
    {n \in DOMAIN text :
        /\ sr_row(text[n]) # <<>>
        /\ \A k \in 1..n : text[k] \notin MarkerLines}

SerialOf(text, n) == sr_row(text[n])[1].sr

(* C12: MemberCount is the greatest serial number among the table rows     *)
(* before the first 'Total Amount' marker (not their number), FirstMember  *)
(* the name on the first row of the least serial number, whatever the      *)
(* order of the rows and the gaps; rows after the marker are ignored, and  *)
(* without rows MemberCount is 0 and FirstMember is empty.                 *)
C12_MemberCountAndFirstMember ==
    run.pc = "done" =>
        LET text == input.pages[1].text
            rows == TableRows(text)
        IN  IF rows = {}
            THEN run.meta.total_members = 0 /\ run.meta.first_member = ""
            ELSE /\ \E n \in rows : run.meta.total_members = SerialOf(text, n)
                 /\ \A n \in rows : SerialOf(text, n) <= run.meta.total_members
                 /\ \E n \in rows :
                        /\ run.meta.first_member = sr_row(text[n])[1].name
                        /\ \A k \in rows : SerialOf(text, n) <= SerialOf(text, k)
                        /\ \A k \in rows :
                               k < n => SerialOf(text, k) > SerialOf(text, n)

C12_Witness ==
    /\ run.pc = "done"
    /\ input.pages[1].text
           = <<"3 JANE DOE IC3", "1 JOHN SMITH IC1", "Total Amount",
               "01. JANE DOE IC9">>
    /\ run.meta.total_members = 3
    /\ run.meta.first_member = "JOHN SMITH"

-----------------------------------------------------------------------------
(* The name a policy document gets from its metadata record. *)

FileSafe(raw) == underscored(strip_illegal(raw))

Composed(meta) ==
    IF meta.Name # "" /\ meta.AssistNo # ""
    THEN FileSafe(meta.Name \o "_" \o meta.AssistNo)
    ELSE IF meta.Name # "" THEN FileSafe(meta.Name)
    ELSE IF meta.AssistNo # "" THEN FileSafe(meta.AssistNo)
    ELSE "Policy"

Neither(n) ==
    run.policy_meta_list[n].Name = "" /\ run.policy_meta_list[n].AssistNo = ""

(* The name of document n is base, or base with a duplicate suffix. *)
NamedFrom(n, base) ==
    \/ run.policies[n].name = base
    \/ \E j \in 1..(n - 1) : run.policies[n].name = base \o "_" \o ToString(j)

(* C13 as stated: a document with neither a name nor an identifier takes   *)
(* the positional base name 'Policy_<n>', n being its position in the run. *)
C13_PositionalFallback ==
    \A n \in DOMAIN run.policies :
        Neither(n) => NamedFrom(n, "Policy_" \o ToString(n))

(* C13: the policy base name is 'Name_Identifier' when both the name and   *)
(* the identifier were found, the name alone or the identifier alone when  *)
(* only one was found, and the fixed word 'Policy' when neither was found, *)
(* each made file-safe; the document is named by that base name, followed  *)
(* by a duplicate suffix when an earlier document had the same base name.  *)
C13_ComposedBaseName ==
    \A n \in DOMAIN run.policies :
        LET base == Composed(run.policy_meta_list[n])
            earlier == {m \in 1..(n - 1) :
                            Composed(run.policy_meta_list[m]) = base}
        IN  /\ NamedFrom(n, base)
            /\ earlier = {} => run.policies[n].name = base
            /\ run.policy_summary_rows[n].Filename
                   = run.policies[n].name \o ".pdf"

C13_Witness ==
    /\ Done
    /\ Len(run.policies) = 3
    /\ run.policy_meta_list[1].Name = "A"
    /\ run.policy_meta_list[1].AssistNo = "IC12345"
    /\ run.policies[1].name = "A_IC12345"
    /\ run.policy_meta_list[2].Name = ""
    /\ run.policies[2].name = "IC12345"
    /\ Neither(3)
    /\ run.policies[3].name = "Policy"

-----------------------------------------------------------------------------
(* The metadata and the base name of one policy document, on every text of *)
(* up to MaxMetaLines lines.                                               *)

MaxMetaLines == 3

PolicyLines ==
    {"Certificate No: AB", "Certificate No: C12345",
     "Assist No: AB", "Assist No: 1234", "Assist No: IC12345",
     "Travel Protection Card", "IC777",
     "Insured Name: A", "Insured Name: JOHN SMITH",
     "Date of Birth: 01/01/1990", "Passport Number: P1234567",
     "Date of your travel: 01/01/2026 to 05/01/2026"}

PolicyMetaInputs ==
    {[full_text |-> t] :
        t \in UNION {[1..n -> PolicyLines] : n \in 0..MaxMetaLines}}

InitPolicyMeta ==
    /\ input \in PolicyMetaInputs
    /\ run = [pc |-> "start", meta |-> empty_meta, base_name |-> ""]

PolicyMeta ==
    /\ run.pc = "start"
    /\ run' = [run EXCEPT
                  !.meta = IF input.full_text # <<>>
                           THEN extract_policy_metadata_from_text(input.full_text)
                           ELSE empty_meta,
                  !.pc = "name"]
    /\ UNCHANGED input

PolicyName ==
    /\ run.pc = "name"
    /\ run' = [run EXCEPT
                  !.base_name = build_policy_filename(run.meta.Name,
                                                      run.meta.AssistNo),
                  !.pc = "done"]
    /\ UNCHANGED input

NextPolicyMeta == PolicyMeta \/ PolicyName

SpecPolicyMeta == InitPolicyMeta /\ [][NextPolicyMeta]_vars

MetaKeys ==
    {"Name", "AssistNo", "StartDate", "EndDate", "DateOfBirth", "PassportNumber"}

(* The lines of the vocabulary on which a field can be found. *)
FieldLines(key) ==
    CASE key = "Name" -> {"Insured Name: A", "Insured Name: JOHN SMITH"}
      [] key = "AssistNo" -> {"Certificate No: AB", "Certificate No: C12345",
                              "Assist No: AB", "Assist No: 1234",
                              "Assist No: IC12345", "IC777"}
      [] key \in {"StartDate", "EndDate"} ->
             {"Date of your travel: 01/01/2026 to 05/01/2026"}
      [] key = "DateOfBirth" -> {"Date of Birth: 01/01/1990"}
      [] key = "PassportNumber" -> {"Passport Number: P1234567"}

OnSomeLine(key, text) == \E n \in DOMAIN text : text[n] \in FieldLines(key)

(* C14: for every text, the empty one included, the metadata record has    *)
(* exactly the six keys Name, Assist No, Start Date, End Date, Date of     *)
(* Birth and Passport Number, each mapped to a string, never to the null   *)
(* value, and to the empty string when the text has no line of the field;  *)
(* extracting the same text again returns the same record.                 *)
C14_SixStringFields ==
    run.pc # "start" =>
        /\ DOMAIN run.meta = MetaKeys
        /\ \A key \in MetaKeys :
               /\ run.meta[key] \in STRING
               /\ run.meta[key] # None
               /\ ~OnSomeLine(key, input.full_text) => run.meta[key] = ""
        /\ run.meta = extract_policy_metadata_from_text(input.full_text)

C14_Witness ==
    /\ run.pc = "done"
    /\ input.full_text = <<"Insured Name: JOHN SMITH", "Date of Birth: 01/01/1990">>
    /\ run.meta = [Name |-> "JOHN SMITH", AssistNo |-> "", StartDate |-> "",
                   EndDate |-> "", DateOfBirth |-> "01/01/1990",
                   PassportNumber |-> ""]

(* The candidates of the three patterns, in chain order. *)
Candidates(text) ==
    <<search("Certificate No", text), search("Assist No", text),
      search_under_card(text)>>

Accepted(candidate) ==
    candidate # None /\ has_digit(candidate) /\ Len(candidate) >= 5

(* C16: Assist No is the candidate of the first pattern, in the order      *)
(* Certificate No, Assist No, line under the card heading, whose candidate *)
(* has a digit and at least five characters; a pattern whose candidate is  *)
(* rejected does not stop the chain; Assist No is empty when no pattern    *)
(* has an accepted candidate, as for the text 'Assist No: AB'.             *)
C16_AssistChain ==
    run.pc # "start" =>
        LET c == Candidates(input.full_text)
            ok == {n \in 1..3 : Accepted(c[n])}
        IN  /\ IF ok = {} THEN run.meta.AssistNo = ""
               ELSE \E n \in ok : /\ run.meta.AssistNo = c[n]
                                  /\ \A k \in ok : n <= k
            /\ input.full_text = <<"Assist No: AB">> => run.meta.AssistNo = ""

C16_Witness ==
    /\ run.pc = "done"
    /\ input.full_text = <<"Assist No: 1234", "Travel Protection Card", "IC777">>
    /\ run.meta.AssistNo = "IC777"

-----------------------------------------------------------------------------
(* The page scan of trigger mode. *)

(* One iteration of the page loop that did not raise, on page run.i:       *)
(* a trigger page closes the open document, if any, as the next output and *)
(* opens a document holding that page alone; another page joins the open   *)
(* document, or is dropped when none is open.                              *)
ScanStep ==
    (IsDetect /\ run.pc = "scan" /\ run.i < N /\ run'.pc = "scan"
        /\ run'.i = run.i + 1) =>
        IF run.i \in TriggerPages
        THEN /\ run'.current_writer = [open |-> TRUE, pages |-> <<run.i>>]
             /\ IF run.current_writer.open
                THEN /\ Len(run'.policies) = Len(run.policies) + 1
                     /\ SubSeq(run'.policies, 1, Len(run.policies)) = run.policies
                     /\ run'.policies[Len(run'.policies)].pages
                            = run.current_writer.pages
                ELSE run'.policies = run.policies
        ELSE /\ run'.policies = run.policies
             /\ run'.current_writer =
                    IF run.current_writer.open
                    THEN [open |-> TRUE,
                          pages |-> Append(run.current_writer.pages, run.i)]
                    ELSE NoWriter

FromFirstTrigger == {p \in 0..(N - 1) : \E t \in TriggerPages : t <= p}

(* What the scan has produced: during the scan the open document, if any,  *)
(* holds pages of no output; a run that ended without an exception has one output per     *)
(* trigger page, and its outputs hold every page from the first trigger    *)
(* page on exactly once and no page before it.                             *)
ScanOutputs ==
    IsDetect =>
        /\ ~run.current_writer.open => run.current_writer.pages = <<>>
        /\ run.pc = "scan" =>
               \A n \in DOMAIN run.policies :
                   PagesOf(run.policies[n]) \cap PagesOf(run.current_writer) = {}
        /\ (Done /\ ~Raised) =>
               /\ Len(run.policies) = Cardinality(TriggerPages)
               /\ CoveredOnce(run.policies, FromFirstTrigger)
               /\ \A n \in DOMAIN run.policies :
                      First(run.policies[n]) \in TriggerPages
        /\ (Done /\ ~Raised /\ N = 3 /\ TriggerPages = {0, 2}) =>
               /\ Len(run.policies) = 2
               /\ IsRange(run.policies[1], 0, 2)
               /\ IsRange(run.policies[2], 2, 3)

(* C15: in trigger mode the page scan keeps at most one open document; a   *)
(* trigger page closes the open document, if any, and opens a new one      *)
(* starting at that page; a page without the trigger is appended to the    *)
(* open document, or dropped when none is open.  Hence, in a run without   *)
(* an exception, pages before the first trigger page are in no output,     *)
(* every page from the first trigger page on is in exactly one output, the *)
(* number of outputs is the number of trigger pages, and a 3-page input    *)
(* with the trigger on pages 0 and 2 yields [0,2) and [2,3).               *)
C15_PageScan == [](ScanOutputs) /\ [][ScanStep]_vars

C15_Witness ==
    /\ IsDetect /\ Done /\ ~Raised
    /\ N = 3 /\ TriggerPages = {0, 2}
    /\ Len(run.policies) = 2
    /\ run.policies[1].pages = <<0, 1>>
    /\ run.policies[2].pages = <<2>>

-----------------------------------------------------------------------------
(* The text a document's metadata and name come from. *)

(* The texts of the given pages, in the given order, joined. *)
TextOfPages(pages) ==
    join([n \in DOMAIN pages |-> extract_text(input.pages[pages[n] + 1])])

(* C17: in every strategy the text a document's metadata and name are      *)
(* derived from is the concatenation, in page order, of the texts of       *)
(* exactly the pages written into that document; no text of a page of an   *)
(* earlier or later document, or of a dropped leading page, is part of it, *)
(* and in trigger mode the accumulated text is that of the open document's *)
(* pages alone.                                                            *)
C17_TextOfOwnPages ==
    /\ \A n \in DOMAIN run.policies :
           /\ run.policy_texts[n] = TextOfPages(run.policies[n].pages)
           /\ run.policy_meta_list[n]
                  = extract_policy_metadata_from_text(
                        TextOfPages(run.policies[n].pages))
           /\ run.policy_summary_rows[n].Name = run.policy_meta_list[n].Name
           /\ run.policy_summary_rows[n].AssistNo
                  = run.policy_meta_list[n].AssistNo
    /\ (IsDetect /\ run.pc = "scan" /\ run.current_writer.open) =>
           join(run.current_text_parts) = TextOfPages(run.current_writer.pages)
    /\ \A n \in DOMAIN run.invoices :
           /\ run.texts_per_invoice[n] = TextOfPages(run.invoices[n].pages)
           /\ run.summary_rows[n].InvoiceNumber
                  = first_match("Invoice no", TextOfPages(run.invoices[n].pages))

C17_Witness ==
    /\ IsDetect /\ Done /\ ~Raised
    /\ N = 3
    /\ input.pages[1] = [text |-> <<"Insured Name: A_1">>, fails |-> FALSE]
    /\ Len(run.policies) = 1
    /\ run.policies[1].pages = <<1, 2>>
    /\ run.policy_texts[1] = <<"TRAVEL PROTECTION CARD", "Insured Name: A">>
    /\ run.policies[1].name = "A"

-----------------------------------------------------------------------------
(* The name of an invoice document. *)

InvoiceMeta(n) ==
    extract_invoice_metadata(input.pages, run.ranges[n][1], run.ranges[n][2])

(* Invoice n is named by the base name raw, made file-safe, with a         *)
(* duplicate suffix when an earlier invoice took the name.                 *)
InvoiceNamedFrom(n, raw) ==
    LET base == sanitize_invoice_name(raw)
    IN  /\ base # ""
        /\ \/ run.invoices[n].name = base
           \/ \E j \in 1..(n - 1) :
                  run.invoices[n].name = base \o "_" \o ToString(j)

(* C18: the base name of the idx-th invoice, idx counted from 1 in page    *)
(* order, is '<first member> x <member count>' when a first member was     *)
(* found and the member count is above 0; else the first member alone;     *)
(* else 'Invoice_<invoice number>' when an invoice number was found; else  *)
(* 'Invoice_<idx>'.  The name is never empty, and the summary row number   *)
(* of each invoice is its idx.                                             *)
C18_InvoiceBaseName ==
    \A idx \in DOMAIN run.invoices :
        LET meta == InvoiceMeta(idx)
            member == meta.first_member # ""
            counted == meta.total_members > 0
            numbered == meta.invoice_no # ""
        IN  /\ (member /\ counted) =>
                   InvoiceNamedFrom(idx, meta.first_member \o " x "
                                             \o ToString(meta.total_members))
            /\ (member /\ ~counted) => InvoiceNamedFrom(idx, meta.first_member)
            /\ (~member /\ numbered) =>
                   InvoiceNamedFrom(idx, "Invoice_" \o meta.invoice_no)
            /\ (~member /\ ~numbered) =>
                   InvoiceNamedFrom(idx, "Invoice_" \o ToString(idx))
            /\ run.invoices[idx].name # ""
            /\ run.summary_rows[idx].no = idx
            /\ run.summary_rows[idx].Filename = run.invoices[idx].name \o ".pdf"
            /\ \A m \in 1..(idx - 1) :
                   First(run.invoices[m]) < First(run.invoices[idx])

C18_Witness ==
    /\ IsInvoice /\ Done /\ ~Raised
    /\ Len(run.invoices) = 3
    /\ InvoiceMeta(1).first_member = "JOHN SMITH"
    /\ InvoiceMeta(1).total_members = 0
    /\ run.invoices[1].name = "JOHN SMITH"
    /\ InvoiceMeta(2).invoice_no = "7"
    /\ run.invoices[2].name = "Invoice_7"
    /\ run.invoices[3].name = "Invoice_3"
    /\ run.summary_rows[3].no = 3

====
